---- MODULE Spec2Model ----
(***************************************************************************)
(* The CloudServices context plugin of ckeditor5-cloud-services: a         *)
(* registry that maps a token URL (a string or a provider function) to a   *)
(* shared, initialized Token.  The plugin's asynchronous methods are       *)
(* split at their `await`: the part before it is one step, the settling of *)
(* the awaited Token#init() promise together with the continuation it      *)
(* resumes another.  (The settling writes only the Token's own fields,     *)
(* which no method of the plugin reads before the continuation ran.)       *)
(***************************************************************************)
EXTENDS Naturals, Integers, Sequences, FiniteSets, TLC

\* Number of registerTokenUrl() invocations a behaviour may issue.
MaxCalls == 2
Calls == 1..MaxCalls
\* Every call creates at most one Token, init() creates at most one more.
TokenIds == 1..(MaxCalls + 1)

\* `null`, where a Token is expected.
NoToken == 0
\* The value of a Token that holds no credential.
Absent == "absent"

\* What a call produced: a Token, an error, or nothing yet.
NoResult == [kind |-> "none", tok |-> NoToken, error |-> ""]
Returned(t) == [kind |-> "token", tok |-> t, error |-> ""]
Threw(e) == [kind |-> "error", tok |-> NoToken, error |-> e]
NotRegistered == Threw("cloudservices-token-not-registered")
InitializationFailure == Threw("InitializationFailure")

(***************************************************************************)
(* TokenUrl = string | (() => Promise<string>).  `chars` is the text of a  *)
(* string or the source text of a function, `ref` the JavaScript object    *)
(* (two strings built separately may hold the same characters, two         *)
(* functions written alike are still two objects).                         *)
(***************************************************************************)
StrA1 == [kind |-> "string", chars |-> "https://ex/a", ref |-> "r1"]
StrA2 == [kind |-> "string", chars |-> "https://ex/a", ref |-> "r2"]
StrB == [kind |-> "string", chars |-> "https://ex/b", ref |-> "r3"]
Fn1 == [kind |-> "function", chars |-> "() => fetchToken()", ref |-> "r4"]
Fn2 == [kind |-> "function", chars |-> "() => fetchToken()", ref |-> "r5"]
\* `undefined`, where a TokenUrl is expected.
Undefined == [kind |-> "undefined", chars |-> "", ref |-> "r0"]
TokenUrl == {StrA1, StrA2, StrB, Fn1, Fn2}

\* config.get( 'cloudServices' ).tokenUrl: absent or a URL.
ConfigTokenUrls == {Undefined, StrA1}

VARIABLES
    config,       \* the tokenUrl of the context's configuration
    tokenUrl,     \* CloudServices#tokenUrl
    token,        \* CloudServices#token
    _tokens,      \* CloudServices#_tokens, a set of [key, value] entries
    toks,         \* the Token objects created so far, in creation order
    initCall,     \* the invocation of CloudServices#init()
    calls,        \* the invocations of registerTokenUrl()
    destroyCalls  \* how many times destroy() ran: 0, 1, or 2 for twice or more

vars == <<config, tokenUrl, token, _tokens, toks, initCall, calls, destroyCalls>>

----------------------------------------------------------------------------
(* Map<TokenUrl, InitializedToken> *)

\* Key equality as it would be if the keys were compared by their text (the
\* keys of a plain object).
SameValueZero_ByText(a, b) == a.chars = b.chars

\* Key equality of a Map: strings by their characters, functions by reference.
SameValueZero(a, b) ==
    IF a.kind = "string" /\ b.kind = "string" THEN a.chars = b.chars ELSE a.ref = b.ref

MapHas(map, key) == \E e \in map : SameValueZero(e.key, key)

MapGet(map, key) ==
    IF MapHas(map, key)
    THEN (CHOOSE e \in map : SameValueZero(e.key, key)).value
    ELSE NoToken

\* Map#set keeps the entry's first key and replaces its value.
MapSet(map, key, value) ==
    IF MapHas(map, key)
    THEN {IF SameValueZero(e.key, key) THEN [e EXCEPT !.value = value] ELSE e : e \in map}
    ELSE map \cup {[key |-> key, value |-> value]}

MapValues(map) == {e.value : e \in map}

----------------------------------------------------------------------------
(* Token *)

\* CloudServicesCore#createToken( tokenUrl ).init(): the new Token, its
\* initialization in flight.
createTokenInit(url) ==
    [url |-> url, state |-> "INITIALIZING", value |-> Absent, inits |-> 1, initPromise |-> "pending",
     timer |-> FALSE, request |-> "none", lastRefresh |-> "none"]

\* Token#destroy() as it would be if it kept the credential.
TokenDestroy_KeepsValue(tok) == [tok EXCEPT !.state = "DESTROYED", !.timer = FALSE]

\* Token#destroy(): cancels the scheduled refresh, releases the credential;
\* a request in flight cannot be recalled, its answer is discarded later.
TokenDestroy(tok) == [tok EXCEPT !.state = "DESTROYED", !.value = Absent, !.timer = FALSE]

\* The Token objects that exist.
Created == 1..Len(toks)

\* The promise of init() settles: the fetch or the provider answered (ok) or
\* failed.  A result that arrives after destroy() is discarded.
TokenInitSettle(tok, ok) ==
    IF tok.state = "DESTROYED"
    THEN [tok EXCEPT !.initPromise = IF ok THEN "resolved" ELSE "rejected"]
    ELSE IF ok
         THEN [tok EXCEPT !.initPromise = "resolved", !.state = "VALID", !.value = "tok-1",
                          !.timer = TRUE]
         ELSE [tok EXCEPT !.initPromise = "rejected", !.state = "FAILED"]

\* The refresh timer of a VALID Token fires: the renewal request is sent.  A
\* renewal in flight is not restarted.
TokenRefreshStart(tok) == [tok EXCEPT !.timer = FALSE, !.request = "pending"]

\* The renewal request as it would settle if a destroyed Token took its answer.
TokenRefreshSettle_AppliesAfterDestroy(tok, ok) ==
    IF ok
    THEN [tok EXCEPT !.request = "none", !.lastRefresh = "ok", !.state = "VALID",
                     !.value = "tok-2", !.timer = TRUE]
    ELSE [tok EXCEPT !.request = "none", !.lastRefresh = "failed",
                     !.timer = (tok.state = "VALID")]

\* The renewal request as it would settle if a failure dropped the credential.
TokenRefreshSettle_FailureClearsValue(tok, ok) ==
    IF tok.state = "DESTROYED"
    THEN [tok EXCEPT !.request = "none"]
    ELSE IF ok
         THEN [tok EXCEPT !.request = "none", !.lastRefresh = "ok", !.value = "tok-2",
                          !.timer = TRUE]
         ELSE [tok EXCEPT !.request = "none", !.lastRefresh = "failed", !.value = Absent,
                          !.state = "FAILED"]

\* The renewal request settles: a new credential replaces the old one, a
\* failure keeps it; the next refresh is scheduled.  The answer to a
\* destroyed Token is discarded.
TokenRefreshSettle(tok, ok) ==
    IF tok.state = "DESTROYED"
    THEN [tok EXCEPT !.request = "none"]
    ELSE IF ok
         THEN [tok EXCEPT !.request = "none", !.lastRefresh = "ok", !.value = "tok-2",
                          !.timer = TRUE]
         ELSE [tok EXCEPT !.request = "none", !.lastRefresh = "failed", !.timer = TRUE]

----------------------------------------------------------------------------
(* CloudServices *)

Init ==
    /\ config \in ConfigTokenUrls
    /\ tokenUrl = Undefined
    /\ token = NoToken
    /\ _tokens = {}
    /\ toks = <<>>
    /\ initCall = [pc |-> "notstarted", tok |-> NoToken]
    /\ calls = [c \in Calls |-> [pc |-> "idle", url |-> Undefined, tok |-> NoToken, result |-> NoResult, peers |-> {}]]
    /\ destroyCalls = 0

\* getTokenFor( tokenUrl ): the Token, or the error it throws.
getTokenFor(url) ==
    LET tk == MapGet(_tokens, url)
    IN  IF tk = NoToken THEN NotRegistered ELSE Returned(tk)

\* getTokenFor() as it would be if a miss created and cached a Token.
callGetTokenFor_CreatesOnMiss(url) ==
    /\ IF MapHas(_tokens, url) \/ Len(toks) >= Cardinality(TokenIds)
       THEN UNCHANGED <<toks, _tokens>>
       ELSE /\ toks' = Append(toks, TokenInitSettle(createTokenInit(url), TRUE))
            /\ _tokens' = MapSet(_tokens, url, Len(toks) + 1)
    /\ UNCHANGED <<config, tokenUrl, token, initCall, calls, destroyCalls>>

\* A caller invokes getTokenFor( url ): a lookup, it assigns nothing.
callGetTokenFor(url) ==
    /\ UNCHANGED <<calls, toks, _tokens, token, initCall, destroyCalls, config, tokenUrl>>
    /\ getTokenFor(url) \in {NotRegistered} \cup {Returned(t) : t \in TokenIds}

\* init() as it would be if it cached the primary Token before awaiting it.
init_EarlyInsert ==
    /\ initCall.pc = "notstarted"
    /\ tokenUrl' = config
    /\ IF config = Undefined
       THEN /\ token' = NoToken
            /\ initCall' = [initCall EXCEPT !.pc = "done"]
            /\ UNCHANGED <<toks, _tokens>>
       ELSE /\ toks' = Append(toks, createTokenInit(config))
            /\ initCall' = [pc |-> "awaiting", tok |-> Len(toks) + 1]
            /\ _tokens' = MapSet(_tokens, config, Len(toks) + 1)
            /\ UNCHANGED token
    /\ UNCHANGED <<config, calls, destroyCalls>>

\* init() as it would be without the test for a missing tokenUrl.
init_NoGuard ==
    /\ initCall.pc = "notstarted"
    /\ tokenUrl' = config
    /\ toks' = Append(toks, createTokenInit(config))
    /\ initCall' = [pc |-> "awaiting", tok |-> Len(toks) + 1]
    /\ UNCHANGED <<config, token, _tokens, calls, destroyCalls>>

\* init() up to its return or its await.
init ==
    /\ initCall.pc = "notstarted"
    /\ tokenUrl' = config
    /\ IF config = Undefined
       THEN /\ token' = NoToken
            /\ initCall' = [initCall EXCEPT !.pc = "done"]
            /\ UNCHANGED toks
       ELSE /\ toks' = Append(toks, createTokenInit(config))
            /\ initCall' = [pc |-> "awaiting", tok |-> Len(toks) + 1]
            /\ UNCHANGED token
    /\ UNCHANGED <<config, _tokens, calls, destroyCalls>>

\* init() after its await: the promise of Token#init() settles and the
\* continuation runs.
initResume(ok) ==
    /\ initCall.pc = "awaiting"
    /\ toks' = [toks EXCEPT ![initCall.tok] = TokenInitSettle(@, ok)]
    /\ IF ok
       THEN /\ token' = initCall.tok
            /\ _tokens' = MapSet(_tokens, tokenUrl, initCall.tok)
            /\ initCall' = [initCall EXCEPT !.pc = "done"]
       ELSE /\ initCall' = [initCall EXCEPT !.pc = "rejected"]
            /\ UNCHANGED <<token, _tokens>>
    /\ UNCHANGED <<config, tokenUrl, calls, destroyCalls>>

\* The registerTokenUrl() calls for the same key that await their Token.
Awaiting(url) == {d \in Calls : calls[d].pc = "awaiting" /\ SameValueZero(calls[d].url, url)}

\* registerTokenUrl() as it would be if it cached the Token before awaiting
\* its init().
registerTokenUrl_EarlyInsert(c, url) ==
    /\ calls[c].pc = "idle"
    /\ \A d \in Calls : d < c => calls[d].pc # "idle"
    /\ IF MapHas(_tokens, url)
       THEN /\ calls' = [calls EXCEPT ![c] = [pc |-> "resolved", url |-> url, tok |-> NoToken,
                                              result |-> getTokenFor(url), peers |-> {}]]
            /\ UNCHANGED <<toks, _tokens>>
       ELSE /\ toks' = Append(toks, createTokenInit(url))
            /\ _tokens' = MapSet(_tokens, url, Len(toks) + 1)
            /\ calls' = [calls EXCEPT ![c] = [pc |-> "awaiting", url |-> url,
                                              tok |-> Len(toks) + 1, result |-> NoResult,
                                              peers |-> Awaiting(url)]]
    /\ UNCHANGED <<config, tokenUrl, token, initCall, destroyCalls>>

\* registerTokenUrl() as it would be without the lookup that reuses a Token.
registerTokenUrl_NoReuse(c, url) ==
    /\ calls[c].pc = "idle"
    /\ \A d \in Calls : d < c => calls[d].pc # "idle"
    /\ toks' = Append(toks, createTokenInit(url))
    /\ calls' = [calls EXCEPT ![c] = [pc |-> "awaiting", url |-> url,
                                      tok |-> Len(toks) + 1, result |-> NoResult,
                                      peers |-> Awaiting(url)]]
    /\ UNCHANGED <<config, tokenUrl, token, _tokens, initCall, destroyCalls>>

\* registerTokenUrl( url ) up to its return or its await.
registerTokenUrl(c, url) ==
    /\ calls[c].pc = "idle"
    /\ \A d \in Calls : d < c => calls[d].pc # "idle"
    /\ IF MapHas(_tokens, url)
       THEN /\ calls' = [calls EXCEPT ![c] = [pc |-> IF getTokenFor(url) = NotRegistered
                                                     THEN "rejected" ELSE "resolved",
                                              url |-> url, tok |-> NoToken,
                                              result |-> getTokenFor(url), peers |-> {}]]
            /\ UNCHANGED toks
       ELSE /\ toks' = Append(toks, createTokenInit(url))
            /\ calls' = [calls EXCEPT ![c] = [pc |-> "awaiting", url |-> url,
                                              tok |-> Len(toks) + 1, result |-> NoResult,
                                              peers |-> Awaiting(url)]]
    /\ UNCHANGED <<config, tokenUrl, token, _tokens, initCall, destroyCalls>>

\* registerTokenUrl() as it would be if it cached the Token whether or not
\* its init() succeeded.
registerResume_CacheOnFailure(c, ok) ==
    /\ calls[c].pc = "awaiting"
    /\ toks' = [toks EXCEPT ![calls[c].tok] = TokenInitSettle(@, ok)]
    /\ _tokens' = MapSet(_tokens, calls[c].url, calls[c].tok)
    /\ IF ok
       THEN calls' = [calls EXCEPT ![c].pc = "resolved", ![c].result = Returned(calls[c].tok)]
       ELSE calls' = [calls EXCEPT ![c].pc = "rejected", ![c].result = InitializationFailure]
    /\ UNCHANGED <<config, tokenUrl, token, initCall, destroyCalls>>

\* registerTokenUrl() after its await: the promise of Token#init() settles
\* and the continuation runs.
registerResume(c, ok) ==
    /\ calls[c].pc = "awaiting"
    /\ toks' = [toks EXCEPT ![calls[c].tok] = TokenInitSettle(@, ok)]
    /\ IF ok
       THEN /\ _tokens' = MapSet(_tokens, calls[c].url, calls[c].tok)
            /\ calls' = [calls EXCEPT ![c].pc = "resolved", ![c].result = Returned(calls[c].tok)]
       ELSE /\ calls' = [calls EXCEPT ![c].pc = "rejected", ![c].result = InitializationFailure]
            /\ UNCHANGED _tokens
    /\ UNCHANGED <<config, tokenUrl, token, initCall, destroyCalls>>

\* destroy() as it would be if it also emptied the map.
destroyRegistry_ClearsMap(map, tokens) ==
    [_tokens |-> {},
     toks |-> [t \in DOMAIN tokens |->
                  IF t \in MapValues(map) THEN TokenDestroy(tokens[t]) ELSE tokens[t]]]

\* destroy() as it would be if it took one entry off the map and destroyed
\* only that Token.
destroyRegistry_PopsOne(map, tokens) ==
    IF map = {}
    THEN [_tokens |-> map, toks |-> tokens]
    ELSE LET e == CHOOSE x \in map : TRUE
         IN  [_tokens |-> map \ {e},
              toks |-> [tokens EXCEPT ![e.value] = TokenDestroy(@)]]

\* The registry after the loop of destroy(): every value of the map is
\* destroyed, the map itself is not touched.
destroyRegistry(map, tokens) ==
    [_tokens |-> map,
     toks |-> [t \in DOMAIN tokens |->
                  IF t \in MapValues(map) THEN TokenDestroy(tokens[t]) ELSE tokens[t]]]

\* destroy()
destroy ==
    /\ UNCHANGED <<config, tokenUrl, token, initCall, calls>>
    /\ destroyCalls' = IF destroyCalls < 2 THEN destroyCalls + 1 ELSE destroyCalls
    /\ _tokens' = destroyRegistry(_tokens, toks)._tokens
    /\ toks' = destroyRegistry(_tokens, toks).toks

Next ==
    \/ init
    \/ \E ok \in BOOLEAN : initResume(ok)
    \/ \E c \in Calls, url \in TokenUrl : registerTokenUrl(c, url)
    \/ \E c \in Calls, ok \in BOOLEAN : registerResume(c, ok)
    \/ \E url \in TokenUrl : callGetTokenFor(url)
    \/ destroy

Spec == Init /\ [][Next]_vars

----------------------------------------------------------------------------
(* The life of the Tokens: those of init() and those another owner creates *)
(* through CloudServicesCore#createToken(), with their refresh cycle and   *)
(* with destroy() called on them at any time.                              *)

\* The identity other owners create Tokens for: a provider function.
OwnerTokenUrl == {Fn1}

\* An owner other than the plugin runs createToken( url ).init().
createToken(url) ==
    /\ Len(toks) < MaxCalls
    /\ toks' = Append(toks, createTokenInit(url))
    /\ UNCHANGED <<config, tokenUrl, token, _tokens, initCall, calls, destroyCalls>>

\* The init() of a Token of another owner settles.
tokenInitSettle(t, ok) ==
    /\ t \in Created
    /\ toks[t].initPromise = "pending"
    /\ ~(initCall.pc = "awaiting" /\ initCall.tok = t)
    /\ toks' = [toks EXCEPT ![t] = TokenInitSettle(@, ok)]
    /\ UNCHANGED <<config, tokenUrl, token, _tokens, initCall, calls, destroyCalls>>

\* The refresh timer of a Token fires.
tokenRefreshStart(t) ==
    /\ t \in Created
    /\ toks[t].state = "VALID"
    /\ toks[t].timer
    /\ toks[t].request = "none"
    /\ toks' = [toks EXCEPT ![t] = TokenRefreshStart(@)]
    /\ UNCHANGED <<config, tokenUrl, token, _tokens, initCall, calls, destroyCalls>>

\* The renewal request of a Token settles.
tokenRefreshSettle(t, ok) ==
    /\ t \in Created
    /\ toks[t].request = "pending"
    /\ toks' = [toks EXCEPT ![t] = TokenRefreshSettle(@, ok)]
    /\ UNCHANGED <<config, tokenUrl, token, _tokens, initCall, calls, destroyCalls>>

\* The owner of a Token calls its destroy().
tokenDestroy(t) ==
    /\ t \in Created
    /\ toks' = [toks EXCEPT ![t] = TokenDestroy(@)]
    /\ UNCHANGED <<config, tokenUrl, token, _tokens, initCall, calls, destroyCalls>>

TokenNext ==
    \/ init
    \/ \E ok \in BOOLEAN : initResume(ok)
    \/ destroy
    \/ \E url \in OwnerTokenUrl : createToken(url)
    \/ \E t \in TokenIds, ok \in BOOLEAN : tokenInitSettle(t, ok)
    \/ \E t \in TokenIds : tokenRefreshStart(t)
    \/ \E t \in TokenIds, ok \in BOOLEAN : tokenRefreshSettle(t, ok)
    \/ \E t \in TokenIds : tokenDestroy(t)

TokenSpec == Init /\ [][TokenNext]_vars

\* The plugin as its host runs it: nothing is registered once destroy() ran,
\* so a call that settles after destroy() was pending when it ran.
HostNext ==
    \/ destroyCalls = 0 /\ init
    \/ \E ok \in BOOLEAN : initResume(ok)
    \/ \E c \in Calls, url \in TokenUrl : destroyCalls = 0 /\ registerTokenUrl(c, url)
    \/ \E c \in Calls, ok \in BOOLEAN : registerResume(c, ok)
    \/ \E url \in TokenUrl : callGetTokenFor(url)
    \/ destroy

HostSpec == Init /\ [][HostNext]_vars

----------------------------------------------------------------------------
(* Properties *)

\* A registration of the key of url has completed successfully: a
\* registerTokenUrl() call resolved or init() stored the primary Token.
Completed(url) ==
    \/ \E c \in Calls : calls[c].pc = "resolved" /\ SameValueZero(calls[c].url, url)
    \/ initCall.pc = "done" /\ tokenUrl # Undefined /\ SameValueZero(tokenUrl, url)

\* C1: registerTokenUrl() calls for one identity that were issued while an
\* earlier one still awaited its Token share one Token: no second Token is
\* created (so no second init() runs), and once they resolved they resolved
\* to the same instance.
C1_ConcurrentCallsShareOneToken ==
    \A c \in Calls : \A d \in calls[c].peers :
        /\ calls[c].tok = calls[d].tok
        /\ (calls[c].pc = "resolved" /\ calls[d].pc = "resolved")
               => calls[c].result = calls[d].result

\* C2: once a registerTokenUrl( u ) call resolved to a Token, getTokenFor( u )
\* returns that Token, for every call that resolved, whatever other
\* registerTokenUrl() calls run (stated here for the runs in which init()
\* takes no part).
C2_GetTokenForReturnsResolvedToken ==
    initCall.pc = "notstarted" =>
        \A c \in Calls :
            calls[c].pc = "resolved" => getTokenFor(calls[c].url) = calls[c].result

\* C3: getTokenFor( u ) throws cloudservices-token-not-registered as long as
\* no registerTokenUrl( u ) call and no init() with the primary u completed
\* successfully, also while a registration of u is in flight; and
\* registerTokenUrl() never fails with that error.
C3_NotRegisteredUntilCompleted ==
    /\ \A u \in TokenUrl : ~Completed(u) => getTokenFor(u) = NotRegistered
    /\ \A c \in Calls : calls[c].result # NotRegistered

\* A registration is in flight and its identity is not registered, while
\* another call has completed.
C3_Witness ==
    \E c, d \in Calls :
        /\ calls[c].pc = "awaiting"
        /\ getTokenFor(calls[c].url) = NotRegistered
        /\ calls[d].pc = "resolved"

C5_MapHoldsOnlyInitializedTokens ==
    \A e \in _tokens :
        /\ e.value \in Created
        /\ toks[e.value].inits = 1
        /\ toks[e.value].initPromise = "resolved"

\* The map holds a Token while the init() of another Token is pending and
\* that of a third one was rejected.
C5_Witness ==
    /\ _tokens # {}
    /\ \E t \in Created : toks[t].initPromise = "pending"
    /\ \E t \in Created : toks[t].initPromise = "rejected"

\* C6: destroy() destroys every Token of the map and the primary Token:
\* when it returns, no Token reachable from the map or from the `token`
\* field is left undestroyed.
C6_DestroyLeavesNoTokenAlive ==
    [][destroy =>
          \A t \in MapValues(_tokens) \cup ({token} \ {NoToken}) :
              toks'[t].state = "DESTROYED"
      ]_vars

\* C7 as claimed: after destroy(), getTokenFor( u ) throws for every identity
\* registered before.
C7_GetTokenForThrowsAfterDestroy ==
    [][destroy =>
          \A u \in TokenUrl : Completed(u) => getTokenFor(u)' = NotRegistered
      ]_vars

\* C7 as amended: destroy() leaves the map as it is, so getTokenFor( u )
\* returns the same Token before and after it, that Token now destroyed,
\* and from the first destroy() on a lookup that succeeded never throws.
C7_GetTokenForStillReturnsAfterDestroy ==
    [][destroyCalls' > 0 =>
          /\ destroy =>
                /\ _tokens' = _tokens
                /\ \A e \in _tokens :
                      /\ getTokenFor(e.key)' = Returned(e.value)
                      /\ toks'[e.value].state = "DESTROYED"
          /\ \A e \in _tokens : getTokenFor(e.key)' # NotRegistered
      ]_vars

\* destroy() ran and getTokenFor() returns a destroyed Token for a
\* registered identity.
C7_Witness ==
    /\ destroyCalls > 0
    /\ \E u \in TokenUrl :
          /\ Completed(u)
          /\ getTokenFor(u).kind = "token"
          /\ toks[getTokenFor(u).tok].state = "DESTROYED"

\* C8: destroy() is idempotent: from every state, running it twice in a row
\* leaves the map and every Token as running it once does.
C8_DestroyIdempotent ==
    LET once == destroyRegistry(_tokens, toks)
        twice == destroyRegistry(once._tokens, once.toks)
    IN  twice = once

\* destroy() ran twice over a map of two Tokens.
C8_Witness ==
    /\ destroyCalls = 2
    /\ Cardinality(MapValues(_tokens)) = 2
    /\ \A t \in MapValues(_tokens) : toks[t].state = "DESTROYED"

\* C9: registerTokenUrl( u ) for a key of the map resolves to the cached
\* Token and changes neither the Tokens (none created, no init()) nor the
\* map nor the primary token.
C9_HitReturnsCachedToken ==
    [][\A c \in Calls :
          (/\ calls[c].pc = "idle"
           /\ calls'[c].pc # "idle"
           /\ MapHas(_tokens, calls'[c].url)) =>
              /\ calls'[c].pc = "resolved"
              /\ calls'[c].result = Returned(MapGet(_tokens, calls'[c].url))
              /\ toks' = toks
              /\ _tokens' = _tokens
              /\ token' = token
      ]_vars

\* A registerTokenUrl() call resolved from the map: it created no Token.
C9_Witness ==
    \E c \in Calls :
        /\ calls[c].pc = "resolved"
        /\ calls[c].tok = NoToken
        /\ calls[c].result = getTokenFor(calls[c].url)
        /\ calls[c].result.kind = "token"

\* Equality of endpoint identities: two strings are equal when their
\* characters are, two functions only when they are the same object.
SameIdentity(a, b) ==
    IF a.kind = "string" /\ b.kind = "string" THEN a.chars = b.chars ELSE a.ref = b.ref

\* C10: calls for different identities (different strings, or two function
\* objects) resolve to different Tokens, each created for its identity and
\* initialized once; a call leaves the map entries of the other identities
\* as they are; and a call with a string equal to a key of the map resolves
\* to that key's Token and creates none.
C10_DistinctIdentitiesDistinctTokens ==
    /\ [](\A c, d \in Calls :
            (/\ calls[c].pc = "resolved"
             /\ calls[d].pc = "resolved"
             /\ ~SameIdentity(calls[c].url, calls[d].url)) =>
                /\ calls[c].result # calls[d].result
                /\ SameIdentity(toks[calls[c].result.tok].url, calls[c].url)
                /\ toks[calls[c].result.tok].inits = 1)
    /\ [][\A c \in Calls :
              calls'[c] # calls[c] =>
                  \A u \in TokenUrl :
                      ~SameIdentity(u, calls'[c].url) => MapGet(_tokens', u) = MapGet(_tokens, u)
          ]_vars
    /\ [][\A c \in Calls : \A e \in _tokens :
              (/\ calls[c].pc = "idle"
               /\ calls'[c].pc # "idle"
               /\ e.key.kind = "string"
               /\ calls'[c].url.kind = "string"
               /\ e.key.chars = calls'[c].url.chars) =>
                  /\ calls'[c].result = Returned(e.value)
                  /\ toks' = toks
          ]_vars

\* Two calls for two function objects of the same text resolved to two
\* Tokens, both in the map.
C10_Witness ==
    \E c, d \in Calls :
        /\ calls[c].pc = "resolved"
        /\ calls[d].pc = "resolved"
        /\ calls[c].url = Fn1
        /\ calls[d].url = Fn2
        /\ calls[c].result # calls[d].result
        /\ getTokenFor(Fn1) = calls[c].result
        /\ getTokenFor(Fn2) = calls[d].result

\* C11: without a configured tokenUrl init() returns without an error,
\* creates no Token (so starts no fetch), adds nothing to the map and
\* leaves `token` null: the map then holds only what registerTokenUrl()
\* stored; registerTokenUrl() and getTokenFor() keep working.
C11_NoPrimaryEndpoint ==
    /\ [](config = Undefined =>
            /\ initCall.pc \in {"notstarted", "done"}
            /\ initCall.tok = NoToken
            /\ token = NoToken
            /\ \A t \in Created : \E c \in Calls : calls[c].tok = t
            /\ \A e \in _tokens : \E c \in Calls :
                  calls[c].pc = "resolved" /\ calls[c].tok = e.value
            /\ \A c \in Calls :
                  (calls[c].pc = "resolved" /\ initCall.pc = "done") =>
                      getTokenFor(calls[c].url).kind = "token")
    /\ [][(initCall.pc = "notstarted" /\ initCall'.pc # "notstarted" /\ config = Undefined) =>
              /\ initCall'.pc = "done"
              /\ toks' = toks
              /\ _tokens' = _tokens
              /\ token' = NoToken
          ]_vars

\* init() returned with no tokenUrl configured, and a registerTokenUrl()
\* call issued afterwards resolved to a Token that getTokenFor() returns.
C11_Witness ==
    /\ config = Undefined
    /\ initCall.pc = "done"
    /\ token = NoToken
    /\ Len(toks) = 1
    /\ \E c \in Calls :
          /\ calls[c].pc = "resolved"
          /\ getTokenFor(calls[c].url) = calls[c].result

\* C12: getTokenFor() changes nothing: whether it returns a Token or throws,
\* the map, the primary token and the Tokens are as before, none is
\* created and no init() is started (a step that changes the map, the
\* primary token or a Token is no getTokenFor() call).
C12_GetTokenForChangesNothing ==
    [][(_tokens' # _tokens \/ token' # token \/ toks' # toks) =>
          \A u \in TokenUrl : ~callGetTokenFor(u)
      ]_vars

\* getTokenFor() returns a Token for one identity and throws for another.
C12_Witness ==
    /\ \E u \in TokenUrl : getTokenFor(u).kind = "token"
    /\ \E u \in TokenUrl : getTokenFor(u) = NotRegistered

\* C13: a Token destroyed while its init() or a refresh is pending stays
\* DESTROYED with no value whatever the pending request answers later, and
\* neither schedules nor starts another refresh.
C13_DestroyedTokenTakesNoResult ==
    [][\A t \in Created :
          toks[t].state = "DESTROYED" =>
              /\ toks'[t].state = "DESTROYED"
              /\ toks'[t].value = Absent
              /\ ~toks'[t].timer
              /\ toks'[t].request \in {toks[t].request, "none"}
              /\ toks'[t].lastRefresh = toks[t].lastRefresh
      ]_vars

\* One Token was destroyed while its init() was pending, another while its
\* refresh was pending.
C13_Witness ==
    /\ \E t \in Created : toks[t].state = "DESTROYED" /\ toks[t].initPromise = "pending"
    /\ \E t \in Created : toks[t].state = "DESTROYED" /\ toks[t].request = "pending"

\* C14: Token#destroy() is idempotent from every state of a Token: twice
\* leaves the Token as once does, destroyed and without a value.
C14_TokenDestroyIdempotent ==
    \A t \in Created :
        /\ TokenDestroy(TokenDestroy(toks[t])) = TokenDestroy(toks[t])
        /\ TokenDestroy(toks[t]).state = "DESTROYED"
        /\ TokenDestroy(toks[t]).value = Absent

\* A destroyed Token next to a VALID one whose refresh is in flight.
C14_Witness ==
    /\ \E t \in Created : toks[t].state = "DESTROYED" /\ toks[t].value = Absent
    /\ \E t \in Created :
          toks[t].state = "VALID" /\ toks[t].value # Absent /\ toks[t].request = "pending"

\* C15: a VALID Token whose refresh fails stays VALID and keeps its value;
\* the failure moves it to no other state and raises nothing.
C15_FailedRefreshKeepsValue ==
    [][\A t \in Created :
          (toks[t].state = "VALID" /\ tokenRefreshSettle(t, FALSE)) =>
              /\ toks'[t].state = "VALID"
              /\ toks'[t].value = toks[t].value
              /\ toks'[t].value # Absent
      ]_vars

\* The last refresh of a VALID Token failed and it holds its first value.
C15_Witness ==
    \E t \in Created :
        /\ toks[t].state = "VALID"
        /\ toks[t].lastRefresh = "failed"
        /\ toks[t].value = "tok-1"
        /\ toks[t].request = "none"

\* C16: when destroy() ran while registerTokenUrl() calls or init() awaited
\* their Token, then once they all settled no Token of the map and no
\* primary token is left undestroyed.
C16_NoTokenAliveAfterPendingCallsSettle ==
    (/\ destroyCalls > 0
     /\ initCall.pc # "awaiting"
     /\ \A c \in Calls : calls[c].pc # "awaiting") =>
        \A t \in MapValues(_tokens) \cup ({token} \ {NoToken}) :
            toks[t].state = "DESTROYED"

\* C17: until destroy() runs, every Token whose init() succeeded is a value
\* of the map (so that destroy() reaches it): none is dropped by a later
\* set() under its key.
C17_InitializedTokensStayInMap ==
    destroyCalls = 0 =>
        \A t \in Created : toks[t].initPromise = "resolved" => t \in MapValues(_tokens)

\* C18: once init() stored the primary Token of tokenUrl p, getTokenFor( p )
\* returns the `token` field, and every registerTokenUrl( p ) call issued
\* since init() began (while it awaited, or later) resolved to that same
\* Token: there is one Token for p.
C18_PrimaryTokenIsTheMapEntry ==
    (initCall.pc = "done" /\ token # NoToken) =>
        /\ getTokenFor(tokenUrl) = Returned(token)
        /\ \A c \in Calls :
              (/\ calls[c].pc = "resolved"
               /\ SameValueZero(calls[c].url, tokenUrl)
               /\ \/ calls[c].tok > initCall.tok
                  \/ calls[c].tok = NoToken /\ calls[c].result.tok >= initCall.tok) =>
                  calls[c].result = Returned(token)

====
